---- MODULE Spec2Model ----
(***************************************************************************)
(* Google Pay checkout flow of the manager console                         *)
(* (features/Billing/Providers/GooglePay.ts).                              *)
(*                                                                         *)
(* The module-level slot googlePaymentInstance is written by               *)
(* initGooglePaymentInstance and read by tokenizePaymentDataRequest.       *)
(* Every `await` of the source is a suspension point; each action below    *)
(* is the code that runs between two suspension points.  The calls made    *)
(* on collaborators (provider SDK, backend API, cache layer, exception     *)
(* reporter, caller callbacks) during the current gPay attempt are         *)
(* recorded, in order, in `log`.                                           *)
(*                                                                         *)
(* The second part is the node-count state of the database creation form   *)
(* (features/Databases/DatabaseCreate/DatabaseCreate.tsx): the form values, *)
(* the plan-selection effect and the two handlers that write them.          *)
(***************************************************************************)
EXTENDS Integers, Sequences, FiniteSets

VARIABLES
  GPAY_MERCHANT_ID,       \* src/constants, read at GooglePay.ts:15,40,96
  GPAY_CLIENT_ENV,        \* src/constants, read at GooglePay.ts:72,96
  googlePaymentInstance,  \* module-level slot: undefined or the session's token
  calls,                  \* running / returned initGooglePaymentInstance calls
  started,                \* number of initGooglePaymentInstance calls so far
  lastInit,               \* outcome of the most recently returned initialize call
  pc,                     \* suspension point of the gPay attempt
  action,                 \* gPay's `action` argument
  totalPrice,             \* transactionInfo.totalPrice
  sessionUsed,            \* the session createPaymentDataRequest was called on
  nonce,                  \* result of tokenizePaymentDataRequest
  processing,             \* the caller's flag driven by setProcessing
  log,                    \* collaborator calls of the current attempt, in order
  attempts,               \* number of gPay attempts started
  dbtypes,                \* DatabaseCreate: data of useDatabaseTypesQuery
  typesLoading,           \* DatabaseCreate: isLoading of useDatabaseTypesQuery
  values,                 \* DatabaseCreate: the form values read by the effect
  type,                   \* DatabaseCreate: useState `type`
  multiNodePricing,       \* DatabaseCreate: useState `multiNodePricing`
  effectDeps,             \* dependencies the plan-selection effect last ran with
  lastEvent               \* the last user event on the form

vars == <<GPAY_MERCHANT_ID, GPAY_CLIENT_ENV, googlePaymentInstance, calls,
          started, lastInit, pc, action, totalPrice, sessionUsed, nonce,
          processing, log, attempts, dbtypes, typesLoading, values, type, multiNodePricing,
          effectDeps, lastEvent>>

dbVars == <<dbtypes, typesLoading, values, type, multiNodePricing, effectDeps, lastEvent>>

config == <<GPAY_MERCHANT_ID, GPAY_CLIENT_ENV>>
initVars == <<googlePaymentInstance, calls, started, lastInit>>
attemptVars == <<pc, action, totalPrice, sessionUsed, nonce, processing, log,
                 attempts>>

----------------------------------------------------------------------------
(* Bounds of the model *)

MaxInits == 3      \* initGooglePaymentInstance calls in one behaviour
MaxAttempts == 2   \* gPay attempts in one behaviour

----------------------------------------------------------------------------
(* Values *)

\* `let googlePaymentInstance: GooglePayment;` holds no session until assigned
undefined == 0

\* Two initGooglePaymentInstance calls may be in flight at once; a call takes
\* the first record that holds no running call.
CallIds == {1, 2}

MerchantIds == {"undefined", "", "merchant-id"}
Environments == {"TEST", "PRODUCTION"}
Actions == {"one-time-payment", "add-recurring-payment"}
Prices == {"10.00", "undefined"}
RealNonces == {"nonce-1", "nonce-2"}
Warnings == {"undefined", "warnings"}

\* What `await googlePayClient.isReadyToPay(...)` may yield
ReadyValues == {"false", "true"}

\* Rejections of the provider operations: an error object, told apart by its
\* statusCode ("undefined" when the object carries none).
StatusCodes == {"CANCELED", "undefined"}

accountBillingKey == "billing"
accountPaymentKey == "payment-methods"

\* One recorded call: the collaborator operation and its arguments.  isText
\* tells whether the first argument is a string (an error object is not).
Entry(op, msg, variant, extra) ==
  [op |-> op, msg |-> msg, variant |-> variant, extra |-> extra, isText |-> TRUE]

\* a provider / backend operation is started, resolves, or is rejected
Call(op, arg, extra) == Entry("call", op, arg, extra)
Resolved(op, value) == Entry("resolved", op, value, "")
Rejected(op, statusCode) == Entry("rejected", op, statusCode, "")

reportException(message) == Entry("reportException", message, "", "")

invalidateQueries(key) == Entry("invalidateQueries", key, "", "")

\* setMessage(message, variant, warnings?) with a string as message
setMessage(message, variant, warnings) ==
  Entry("setMessage", message, variant, warnings)

\* setMessage(error, 'error') where error is the rejected error object
setMessageObject(statusCode, variant) ==
  [op |-> "setMessage", msg |-> statusCode, variant |-> variant,
   extra |-> "undefined", isText |-> FALSE]

setProcessing(flag) == Entry("setProcessing", flag, "", "")

\* What a rejected promise carries into a catch block: a string (line 68, 84)
\* or an error object with its statusCode.
ErrorString(text) == [kind |-> "string", text |-> text, statusCode |-> "undefined"]
ErrorObject(statusCode) == [kind |-> "object", text |-> "", statusCode |-> statusCode]

\* JavaScript truthiness of the awaited readiness value
Truthy(v) == v # "false"

\* Boolean(GPAY_MERCHANT_ID)
Boolean(s) == s \notin {"undefined", ""}

----------------------------------------------------------------------------
(* initGooglePaymentInstance *)

IdleCall == [pc |-> "idle", token |-> 0, error |-> "none", reported |-> FALSE]

\* call: line 33 starts braintree.client.create with the caller's token
Running(i) == calls[i].pc \in {"clientCreate", "googlePaymentCreate"}

initGooglePaymentInstance(i) ==
  /\ ~Running(i)
  /\ \A j \in CallIds : j < i => Running(j)
  /\ started < MaxInits
  /\ started' = started + 1
  /\ calls' = [calls EXCEPT ![i] = [pc |-> "clientCreate", token |-> started + 1,
                                    error |-> "none", reported |-> FALSE]]
  /\ UNCHANGED <<googlePaymentInstance, lastInit, config, dbVars, attemptVars>>

\* the catch block of lines 42-47
InitCatch(i) ==
  /\ calls' = [calls EXCEPT ![i].pc = "returned", ![i].error = "true",
                            ![i].reported = TRUE]
  /\ lastInit' = "failed"
  /\ UNCHANGED <<googlePaymentInstance, started, config, dbVars, attemptVars>>

clientCreateResolved(i) ==
  /\ calls[i].pc = "clientCreate"
  /\ calls' = [calls EXCEPT ![i].pc = "googlePaymentCreate"]
  /\ UNCHANGED <<googlePaymentInstance, started, lastInit, config, dbVars, attemptVars>>

clientCreateRejected(i) ==
  /\ calls[i].pc = "clientCreate"
  /\ InitCatch(i)

\* an initialize that keeps the session of the later-started call
googlePaymentCreateResolved_KeepNewest(i) ==
  /\ calls[i].pc = "googlePaymentCreate"
  /\ googlePaymentInstance' = IF calls[i].token > googlePaymentInstance
                              THEN calls[i].token
                              ELSE googlePaymentInstance
  /\ calls' = [calls EXCEPT ![i].pc = "returned", ![i].error = "false"]
  /\ lastInit' = "ok"
  /\ UNCHANGED <<started, config, dbVars, attemptVars>>

\* line 37 assigns the slot when googlePayment.create resolves; line 48 returns
googlePaymentCreateResolved(i) ==
  /\ calls[i].pc = "googlePaymentCreate"
  /\ googlePaymentInstance' = calls[i].token
  /\ calls' = [calls EXCEPT ![i].pc = "returned", ![i].error = "false"]
  /\ lastInit' = "ok"
  /\ UNCHANGED <<started, config, dbVars, attemptVars>>

googlePaymentCreateRejected(i) ==
  /\ calls[i].pc = "googlePaymentCreate"
  /\ InitCatch(i)

----------------------------------------------------------------------------
(* gPay and tokenizePaymentDataRequest *)

\* gPay's catch block without the early return of lines 162-164
gPayCatch_NoCancelCheck(error) ==
  IF error.kind = "string"
  THEN <<setMessage(error.text, "error", "undefined")>>
  ELSE <<setMessageObject(error.statusCode, "error")>>

\* lines 161-167: the catch block of gPay
gPayCatch(error) ==
  IF error.statusCode = "CANCELED" THEN <<>>
  ELSE IF error.kind = "string"
       THEN <<setMessage(error.text, "error", "undefined")>>
       ELSE <<setMessageObject(error.statusCode, "error")>>

\* the attempt ends in gPay's catch block with the rejection `error`
Throw(entries, error) ==
  /\ log' = log \o entries \o gPayCatch(error)
  /\ pc' = "done"

\* the catch block of lines 64-69 without its reportException call
tokenizeCatch_NoReport == <<>>

\* lines 64-69: the catch block around createPaymentDataRequest
tokenizeCatch == <<reportException("Unable to open Google Pay.")>>

\* the nonce selection with `||` in place of `&&`
SelectNonce_Or(realNonce) ==
  IF Boolean(GPAY_MERCHANT_ID) \/ GPAY_CLIENT_ENV = "PRODUCTION"
  THEN realNonce
  ELSE "fake-android-pay-nonce"

\* lines 95-98
SelectNonce(realNonce) ==
  IF Boolean(GPAY_MERCHANT_ID) /\ GPAY_CLIENT_ENV = "PRODUCTION"
  THEN realNonce
  ELSE "fake-android-pay-nonce"

\* gPay is called; tokenizePaymentDataRequest runs up to its first await
\* (line 58).  Reading a method of the unassigned slot throws a TypeError
\* inside the try block.
gPay(a, price) ==
  /\ pc \in {"idle", "done"}
  /\ attempts < MaxAttempts
  /\ attempts' = attempts + 1
  /\ action' = a
  /\ totalPrice' = price
  /\ nonce' = "none"
  /\ sessionUsed' = googlePaymentInstance
  /\ IF googlePaymentInstance = undefined
     THEN /\ log' = tokenizeCatch
                    \o gPayCatch(ErrorString("Unable to open Google Pay."))
          /\ pc' = "done"
     ELSE /\ log' = <<Call("createPaymentDataRequest", "", "")>>
          /\ pc' = "createPaymentDataRequest"
  /\ UNCHANGED <<processing, config, dbVars, initVars>>

\* lines 71-82: the request is built, the client is made, readiness is asked
createPaymentDataRequestResolved ==
  /\ pc = "createPaymentDataRequest"
  /\ log' = log \o <<Resolved("createPaymentDataRequest", ""),
                     Call("isReadyToPay", "", "")>>
  /\ pc' = "isReadyToPay"
  /\ UNCHANGED <<action, totalPrice, sessionUsed, nonce, processing, attempts,
                 config, dbVars, initVars>>

createPaymentDataRequestRejected ==
  /\ pc = "createPaymentDataRequest"
  /\ Throw(<<Rejected("createPaymentDataRequest", "undefined")>> \o tokenizeCatch,
           ErrorString("Unable to open Google Pay."))
  /\ UNCHANGED <<action, totalPrice, sessionUsed, nonce, processing, attempts,
                 config, dbVars, initVars>>

\* tokenizePaymentDataRequest without the readiness gate of lines 83-85
isReadyToPayResolved_NoGate(v) ==
  /\ pc = "isReadyToPay"
  /\ log' = log \o <<Resolved("isReadyToPay", v), Call("loadPaymentData", "", "")>>
  /\ pc' = "loadPaymentData"
  /\ UNCHANGED <<action, totalPrice, sessionUsed, nonce, processing, attempts,
                 config, dbVars, initVars>>

\* lines 83-87
isReadyToPayResolved(v) ==
  /\ pc = "isReadyToPay"
  /\ IF ~Truthy(v)
     THEN Throw(<<Resolved("isReadyToPay", v)>>,
                ErrorString("Your device does not support Google Pay."))
     ELSE /\ log' = log \o <<Resolved("isReadyToPay", v),
                              Call("loadPaymentData", "", "")>>
          /\ pc' = "loadPaymentData"
  /\ UNCHANGED <<action, totalPrice, sessionUsed, nonce, processing, attempts,
                 config, dbVars, initVars>>

isReadyToPayRejected(code) ==
  /\ pc = "isReadyToPay"
  /\ Throw(<<Rejected("isReadyToPay", code)>>, ErrorObject(code))
  /\ UNCHANGED <<action, totalPrice, sessionUsed, nonce, processing, attempts,
                 config, dbVars, initVars>>

\* lines 87-91: the sheet returned payment data (the provider has called
\* onPaymentAuthorized, which always accepts); the slot is read again
loadPaymentDataResolved ==
  /\ pc = "loadPaymentData"
  /\ log' = log \o <<Resolved("loadPaymentData", ""),
                     Call("parseResponse", "", "")>>
  /\ pc' = "parseResponse"
  /\ UNCHANGED <<action, totalPrice, sessionUsed, nonce, processing, attempts,
                 config, dbVars, initVars>>

loadPaymentDataRejected(code) ==
  /\ pc = "loadPaymentData"
  /\ Throw(<<Rejected("loadPaymentData", code)>>, ErrorObject(code))
  /\ UNCHANGED <<action, totalPrice, sessionUsed, nonce, processing, attempts,
                 config, dbVars, initVars>>

\* the dispatch of lines 155-159 with its branches swapped
Settle_Swapped(a, n, usd) ==
  IF a = "one-time-payment"
  THEN Call("addPaymentMethod", n, "is_default:true")
  ELSE Call("makePayment", n, usd)

\* lines 116-119 and 136-140: the settlement call a nonce is handed to
Settle(a, n, usd) ==
  IF a = "one-time-payment"
  THEN Call("makePayment", n, usd)
  ELSE Call("addPaymentMethod", n, "is_default:true")

\* lines 95-99 and 153-159: the nonce is chosen, gPay resumes
parseResponseResolved(realNonce) ==
  /\ pc = "parseResponse"
  /\ nonce' = SelectNonce(realNonce)
  /\ processing' = TRUE
  /\ log' = log \o <<Resolved("parseResponse", realNonce),
                     Resolved("tokenizePaymentDataRequest", nonce'),
                     setProcessing("true"),
                     Settle(action, nonce', totalPrice)>>
  /\ pc' = IF action = "one-time-payment" THEN "makePayment"
                                          ELSE "addPaymentMethod"
  /\ UNCHANGED <<action, totalPrice, sessionUsed, attempts, config, dbVars, initVars>>

parseResponseRejected(code) ==
  /\ pc = "parseResponse"
  /\ Throw(<<Rejected("parseResponse", code)>>, ErrorObject(code))
  /\ UNCHANGED <<action, totalPrice, sessionUsed, nonce, processing, attempts,
                 config, dbVars, initVars>>

----------------------------------------------------------------------------
(* makeOneTimePayment and addRecurringPayment *)

\* makeOneTimePayment without the cache invalidation of line 120
makeOneTimePaymentThen_NoInvalidate(price, warnings) ==
  <<setMessage("Payment for $" \o price \o " successfully submitted with Google Pay",
               "success", warnings)>>

\* makeOneTimePayment dropping response.warnings from the success message
makeOneTimePaymentThen_NoWarnings(price, warnings) ==
  <<invalidateQueries(accountBillingKey \o "-payments"),
    setMessage("Payment for $" \o price \o " successfully submitted with Google Pay",
               "success", "undefined")>>

\* lines 120-125: after makePayment resolved with response.warnings
makeOneTimePaymentThen(price, warnings) ==
  <<invalidateQueries(accountBillingKey \o "-payments"),
    setMessage("Payment for $" \o price \o " successfully submitted with Google Pay",
               "success", warnings)>>

\* makeOneTimePayment invalidating the cache on failure as well
makeOneTimePaymentCatch_Invalidate ==
  <<reportException("Unable to complete Google Pay payment"),
    invalidateQueries(accountBillingKey \o "-payments"),
    setMessage("Unable to complete Google Pay payment", "error", "undefined")>>

\* lines 126-131
makeOneTimePaymentCatch ==
  <<reportException("Unable to complete Google Pay payment"),
    setMessage("Unable to complete Google Pay payment", "error", "undefined")>>

\* addRecurringPayment invalidating the key of the other branch
addRecurringPaymentThen_WrongKey ==
  <<invalidateQueries(accountBillingKey \o "-payments"),
    setMessage("Successfully added Google Pay", "success", "undefined")>>

\* lines 141-142
addRecurringPaymentThen ==
  <<invalidateQueries(accountPaymentKey \o "-all"),
    setMessage("Successfully added Google Pay", "success", "undefined")>>

\* lines 143-149
addRecurringPaymentCatch ==
  <<reportException("Unable to add payment method"),
    setMessage("Unable to add payment method", "error", "undefined")>>

\* gPay leaving the flag set, as if line 160 were skipped
Finish_NoReset(entries) ==
  /\ log' = log \o entries
  /\ processing' = processing
  /\ pc' = "done"
  /\ UNCHANGED <<action, totalPrice, sessionUsed, nonce, attempts, config, dbVars,
                 initVars>>

\* line 160, reached whether the settlement call succeeded or failed
Finish(entries) ==
  /\ log' = log \o entries \o <<setProcessing("false")>>
  /\ processing' = FALSE
  /\ pc' = "done"
  /\ UNCHANGED <<action, totalPrice, sessionUsed, nonce, attempts, config, dbVars,
                 initVars>>

makePaymentResolved(warnings) ==
  /\ pc = "makePayment"
  /\ Finish(<<Resolved("makePayment", warnings)>>
            \o makeOneTimePaymentThen(totalPrice, warnings))

makePaymentRejected ==
  /\ pc = "makePayment"
  /\ Finish(<<Rejected("makePayment", "undefined")>> \o makeOneTimePaymentCatch)

addPaymentMethodResolved ==
  /\ pc = "addPaymentMethod"
  /\ Finish(<<Resolved("addPaymentMethod", "")>> \o addRecurringPaymentThen)

addPaymentMethodRejected ==
  /\ pc = "addPaymentMethod"
  /\ Finish(<<Rejected("addPaymentMethod", "undefined")>>
            \o addRecurringPaymentCatch)

----------------------------------------------------------------------------
(* DatabaseCreate: node count and replication type *)

\* The plans useDatabaseTypesQuery returns: id, memory, and the monthly price
\* of the plan and of its failover addon (hundredths of a dollar).
DatabaseTypes ==
  { [id |-> "g6-nanode-1",    memory |-> 1024, price |-> 1500, failover |-> 2000],
    [id |-> "g6-standard-1",  memory |-> 2048, price |-> 3000, failover |-> 4000],
    [id |-> "g6-standard-2",  memory |-> 4096, price |-> 6000, failover |-> 8000],
    [id |-> "g6-dedicated-2", memory |-> 4096, price |-> 6500, failover |-> 9000],
    [id |-> "g6-standard-4",  memory |-> 8192, price |-> 12000, failover |-> 16000] }

\* the value of the two radio options (lines 267-290)
NodeCounts == {0, 2}

\* useFormik's initialValues, lines 233-239
initialValues ==
  [type |-> "", failover_count |-> -1, replication_type |-> "none"]

\* useState of lines 145-148
NoPricing == [monthly |-> 0]

\* the `type` state before setType, line 143
NoType == [id |-> "", memory |-> 0, price |-> 0, failover |-> 0]

\* dbtypes is undefined until the query has data; a refetch that brings
\* changed data hands the component a new array
Defined(d) == d # "undefined"

\* dbtypes.find((type) => type.id === values.type), line 297
Find(id) ==
  IF \E t \in DatabaseTypes : t.id = id
  THEN CHOOSE t \in DatabaseTypes : t.id = id
  ELSE NoType

\* a dependency array that leaves values.failover_count out
Deps_NoFailoverCount ==
  [mounted |-> TRUE, dbtypes |-> dbtypes, failover_count |-> -1,
   type |-> values.type]

\* the dependency array of line 316, [dbtypes, setFieldValue,
\* values.failover_count, values.type]; setFieldValue never changes
Deps ==
  [mounted |-> TRUE, dbtypes |-> dbtypes,
   failover_count |-> values.failover_count, type |-> values.type]

\* the effect has run for the values now rendered
Quiescent == effectDeps = Deps

\* lines 311-315.  Both setFieldValue calls read the values of the render the
\* effect belongs to: replication_type is derived from the failover_count
\* before the assignment of line 311.
EffectValues(t) ==
  [values EXCEPT
     !.failover_count = IF t.memory = 1024 THEN 0 ELSE 2,
     !.replication_type = IF values.failover_count = 0 THEN "none"
                                                        ELSE "semi-synch"]

\* the effect of lines 292-316 runs after a render whose dependencies differ
\* from those of its last run (and after the first render)
PlanSelectionEffect ==
  /\ ~Quiescent
  /\ effectDeps' = Deps
  /\ IF values.type = "" \/ ~Defined(dbtypes) \/ Find(values.type) = NoType
     THEN UNCHANGED <<values, type, multiNodePricing>>
     ELSE LET t == Find(values.type)
          IN /\ type' = t
             /\ multiNodePricing' = [monthly |-> t.price + t.failover]
             /\ values' = EffectValues(t)
  /\ UNCHANGED <<dbtypes, typesLoading, lastEvent, config, initVars, attemptVars>>

\* useDatabaseTypesQuery gets its data; the form replaces the progress
\* indicator of lines 318-320
TypesLoaded ==
  /\ typesLoading
  /\ typesLoading' = FALSE
  /\ dbtypes' = "data"
  /\ UNCHANGED <<values, type, multiNodePricing, effectDeps, lastEvent, config,
                 initVars, attemptVars>>

\* useDatabaseTypesQuery refetches and returns a new array of the same plans
TypesRefetched ==
  /\ ~typesLoading
  /\ Defined(dbtypes)
  /\ Quiescent
  /\ dbtypes' = IF dbtypes = "data" THEN "data-refetched" ELSE "data"
  /\ UNCHANGED <<typesLoading, values, type, multiNodePricing, effectDeps,
                 lastEvent, config, initVars, attemptVars>>

\* useDatabaseTypesQuery fails: dbtypes stays undefined and the error state
\* of lines 322-324 is shown in place of the form
TypesFailed ==
  /\ typesLoading
  /\ typesLoading' = FALSE
  /\ UNCHANGED <<dbtypes, values, type, multiNodePricing, effectDeps, lastEvent,
                 config, initVars, attemptVars>>

\* SelectPlanPanel onSelect, lines 385-387.  The form is rendered once the
\* types are loaded (lines 318-324); pending effects run before the next
\* event is handled.
SelectPlan(id) ==
  /\ ~typesLoading
  /\ Defined(dbtypes)
  /\ Quiescent
  /\ values' = [values EXCEPT !.type = id]
  /\ lastEvent' = [kind |-> "plan", count |-> -1]
  /\ UNCHANGED <<dbtypes, typesLoading, type, multiNodePricing, effectDeps,
                 config, initVars, attemptVars>>

\* the node-count FormControl onChange, lines 404-410
NodeCountChange(count) ==
  /\ ~typesLoading
  /\ Defined(dbtypes)
  /\ Quiescent
  /\ values' = [values EXCEPT
                  !.failover_count = count,
                  !.replication_type = IF count = 0 THEN "none" ELSE "semi-synch"]
  /\ lastEvent' = [kind |-> "radio", count |-> count]
  /\ UNCHANGED <<dbtypes, typesLoading, type, multiNodePricing, effectDeps,
                 config, initVars, attemptVars>>

----------------------------------------------------------------------------
(* Specification *)

Init ==
  /\ GPAY_MERCHANT_ID \in MerchantIds
  /\ GPAY_CLIENT_ENV \in Environments
  /\ googlePaymentInstance = undefined
  /\ calls = [i \in CallIds |-> IdleCall]
  /\ started = 0
  /\ lastInit = "none"
  /\ pc = "idle"
  /\ action = "one-time-payment"
  /\ totalPrice = "undefined"
  /\ sessionUsed = undefined
  /\ nonce = "none"
  /\ processing = FALSE
  /\ log = <<>>
  /\ attempts = 0
  /\ dbtypes = "undefined"
  /\ typesLoading = TRUE
  /\ values = initialValues
  /\ type = NoType
  /\ multiNodePricing = NoPricing
  /\ effectDeps = [mounted |-> FALSE, dbtypes |-> "undefined",
                   failover_count |-> -1, type |-> ""]
  /\ lastEvent = [kind |-> "none", count |-> -1]

Next ==
  \/ \E i \in CallIds : initGooglePaymentInstance(i)
  \/ \E i \in CallIds : clientCreateResolved(i)
  \/ \E i \in CallIds : clientCreateRejected(i)
  \/ \E i \in CallIds : googlePaymentCreateResolved(i)
  \/ \E i \in CallIds : googlePaymentCreateRejected(i)
  \/ \E a \in Actions, price \in Prices : gPay(a, price)
  \/ createPaymentDataRequestResolved
  \/ createPaymentDataRequestRejected
  \/ \E v \in ReadyValues : isReadyToPayResolved(v)
  \/ \E code \in StatusCodes : isReadyToPayRejected(code)
  \/ loadPaymentDataResolved
  \/ \E code \in StatusCodes : loadPaymentDataRejected(code)
  \/ \E n \in RealNonces : parseResponseResolved(n)
  \/ \E code \in StatusCodes : parseResponseRejected(code)
  \/ \E w \in Warnings : makePaymentResolved(w)
  \/ makePaymentRejected
  \/ addPaymentMethodResolved
  \/ addPaymentMethodRejected

Spec == Init /\ [][Next]_vars

\* The database creation form alone, with the Google Pay configuration fixed.
\* React runs the effect of every committed render.
FormNext ==
  \/ TypesLoaded
  \/ TypesFailed
  \/ TypesRefetched
  \/ PlanSelectionEffect
  \/ \E t \in DatabaseTypes : SelectPlan(t.id)
  \/ \E count \in NodeCounts : NodeCountChange(count)

FormInit ==
  /\ Init
  /\ GPAY_MERCHANT_ID = "merchant-id"
  /\ GPAY_CLIENT_ENV = "PRODUCTION"

FormSpec == FormInit /\ [][FormNext]_vars /\ WF_vars(PlanSelectionEffect)

----------------------------------------------------------------------------
(* Reading the record of an attempt *)

Has(e) == \E i \in DOMAIN log : log[i] = e

\* positions of the calls of operation op / of its resolutions / rejections
CallsOf(op) == {i \in DOMAIN log : log[i].op = "call" /\ log[i].msg = op}
ResolvedOf(op) == {i \in DOMAIN log : log[i].op = "resolved" /\ log[i].msg = op}
RejectedOf(op) == {i \in DOMAIN log : log[i].op = "rejected" /\ log[i].msg = op}

Invalidations == {i \in DOMAIN log : log[i].op = "invalidateQueries"}
InvalidationsOf(key) == {i \in Invalidations : log[i].msg = key}
Messages == {i \in DOMAIN log : log[i].op = "setMessage"}
ErrorMessages == {i \in Messages : log[i].variant = "error"}
Reports == {i \in DOMAIN log : log[i].op = "reportException"}
SettlementCalls == CallsOf("makePayment") \cup CallsOf("addPaymentMethod")

----------------------------------------------------------------------------
(* C1 *)

OneTimePaymentSucceeded ==
  /\ action = "one-time-payment"
  /\ ResolvedOf("tokenizePaymentDataRequest") # {}
  /\ ResolvedOf("makePayment") # {}

\* C1: in a one-time-payment attempt whose tokenization yielded a nonce and
\* whose makePayment call resolved, "billing-payments" is invalidated exactly
\* once, and in no state of a one-time-payment attempt is it invalidated
\* before makePayment has resolved.
C1_BillingPaymentsInvalidatedOnce ==
  /\ OneTimePaymentSucceeded =>
       Cardinality(InvalidationsOf("billing-payments")) = 1
  /\ action = "one-time-payment" =>
       \A i \in InvalidationsOf("billing-payments") :
         \E j \in ResolvedOf("makePayment") : j < i

C1_Witness ==
  /\ pc = "done"
  /\ OneTimePaymentSucceeded
  /\ InvalidationsOf("billing-payments") # {}

----------------------------------------------------------------------------
(* C2 *)

RecurringPaymentSucceeded ==
  /\ action = "add-recurring-payment"
  /\ ResolvedOf("tokenizePaymentDataRequest") # {}
  /\ ResolvedOf("addPaymentMethod") # {}

\* C2: in an add-recurring-payment attempt whose tokenization yielded a nonce
\* and whose addPaymentMethod call (made with that nonce and is_default =
\* true) resolved, "payment-methods-all" is invalidated exactly once, only
\* after addPaymentMethod resolved, and "billing-payments" is not invalidated.
C2_PaymentMethodsInvalidatedOnce ==
  /\ RecurringPaymentSucceeded =>
       /\ Cardinality(InvalidationsOf("payment-methods-all")) = 1
       /\ InvalidationsOf("billing-payments") = {}
       /\ \A i \in CallsOf("addPaymentMethod") :
            log[i] = Call("addPaymentMethod", nonce, "is_default:true")
  /\ action = "add-recurring-payment" =>
       \A i \in InvalidationsOf("payment-methods-all") :
         \E j \in ResolvedOf("addPaymentMethod") : j < i

C2_Witness ==
  /\ pc = "done"
  /\ RecurringPaymentSucceeded
  /\ InvalidationsOf("payment-methods-all") # {}

----------------------------------------------------------------------------
(* C3 *)

NotReady == Has(Resolved("isReadyToPay", "false"))

\* C3: when isReadyToPay yields false, loadPaymentData and parseResponse are
\* never called, neither backend call is made, no cache key is invalidated,
\* and the attempt ends with
\* setMessage('Your device does not support Google Pay.', 'error').
C3_NotReadyStopsTheAttempt ==
  NotReady =>
    /\ CallsOf("loadPaymentData") = {}
    /\ CallsOf("parseResponse") = {}
    /\ SettlementCalls = {}
    /\ Invalidations = {}
    /\ pc = "done"
    /\ log[Len(log)] =
         setMessage("Your device does not support Google Pay.", "error", "undefined")

C3_Witness == NotReady /\ pc = "done"

----------------------------------------------------------------------------
(* C4 *)

\* C4: whenever parseResponse has yielded the real nonce n, the nonce that
\* tokenization returns, and that the settlement call carries, is n exactly
\* when GPAY_MERCHANT_ID is non-empty and GPAY_CLIENT_ENV is 'PRODUCTION',
\* and is 'fake-android-pay-nonce' for every other combination.
C4_NonceSelection ==
  \A i \in ResolvedOf("parseResponse") :
    LET n == log[i].variant
        production == /\ GPAY_MERCHANT_ID \notin {"", "undefined"}
                      /\ GPAY_CLIENT_ENV = "PRODUCTION"
    IN /\ production => nonce = n
       /\ ~production => nonce = "fake-android-pay-nonce"
       /\ Has(Resolved("tokenizePaymentDataRequest", nonce))
       /\ \A j \in SettlementCalls : log[j].variant = nonce

C4_Witness ==
  /\ ResolvedOf("parseResponse") # {}
  /\ nonce \in RealNonces
  /\ \E j \in SettlementCalls : log[j].variant = nonce

----------------------------------------------------------------------------
(* C5 *)

ProviderOperations == {"isReadyToPay", "loadPaymentData", "parseResponse"}

Canceled ==
  \E op \in ProviderOperations : Has(Rejected(op, "CANCELED"))

\* C5: when a provider operation of the attempt is rejected with statusCode
\* 'CANCELED', the attempt ends without any setMessage call, without any
\* cache invalidation and without a backend settlement call.
C5_CanceledIsSilent ==
  Canceled =>
    /\ pc = "done"
    /\ Messages = {}
    /\ Invalidations = {}
    /\ SettlementCalls = {}

C5_Witness == pc = "done" /\ Has(Rejected("loadPaymentData", "CANCELED"))

----------------------------------------------------------------------------
(* C6 *)

\* the attempt is over and ended in an error other than a cancellation
FailedAttempt ==
  /\ pc = "done"
  /\ attempts > 0
  /\ ~Canceled
  /\ ResolvedOf("makePayment") = {}
  /\ ResolvedOf("addPaymentMethod") = {}

\* C6: every attempt that ends in an error other than a cancellation has
\* reported it with reportException and has called setMessage with severity
\* 'error' and a text message; every failed initialize call has reported
\* its error.
C6_ErrorsReportedAndSurfaced ==
  /\ \A i \in CallIds : calls[i].error = "true" => calls[i].reported
  /\ FailedAttempt =>
       /\ Reports # {}
       /\ \E i \in ErrorMessages : log[i].isText

----------------------------------------------------------------------------
(* C7 *)

\* C7: when makePayment is rejected in a one-time-payment attempt,
\* setMessage('Unable to complete Google Pay payment', 'error') is called,
\* the failure is reported with reportException, no cache key is
\* invalidated, no success message is emitted, and makePayment was called
\* once and no other settlement call was made.
C7_FailedPaymentIsReported ==
  RejectedOf("makePayment") # {} =>
    /\ Has(setMessage("Unable to complete Google Pay payment", "error", "undefined"))
    /\ Has(reportException("Unable to complete Google Pay payment"))
    /\ Invalidations = {}
    /\ \A i \in Messages : log[i].variant # "success"
    /\ Cardinality(CallsOf("makePayment")) = 1
    /\ CallsOf("addPaymentMethod") = {}

C7_Witness ==
  /\ pc = "done"
  /\ action = "one-time-payment"
  /\ ResolvedOf("tokenizePaymentDataRequest") # {}
  /\ RejectedOf("makePayment") # {}

----------------------------------------------------------------------------
(* C8 *)

\* C8: in a one-time-payment attempt with totalPrice p whose provider flow
\* and makePayment call succeeded, setMessage is called exactly once, with
\* 'Payment for $<p> successfully submitted with Google Pay', 'success' and
\* the warnings the charge endpoint returned, and never with 'error'.
C8_OneSuccessMessage ==
  \A r \in ResolvedOf("makePayment") :
    /\ Cardinality(Messages) = 1
    /\ ErrorMessages = {}
    /\ \A i \in Messages :
         /\ log[i].variant = "success"
         /\ log[i].isText
         /\ log[i].extra = log[r].variant
         /\ log[i].msg =
              "Payment for $" \o totalPrice \o " successfully submitted with Google Pay"
         /\ totalPrice = "10.00" =>
              log[i].msg = "Payment for $10.00 successfully submitted with Google Pay"

C8_Witness ==
  /\ pc = "done"
  /\ totalPrice = "10.00"
  /\ Has(Resolved("makePayment", "warnings"))
  /\ Has(setMessage("Payment for $10.00 successfully submitted with Google Pay",
                    "success", "warnings"))

----------------------------------------------------------------------------
(* C9 *)

\* the attempt failed at request building: nothing but the report and the
\* message of lines 65-68 and 166 happened
FailedAtBuild ==
  /\ pc = "done"
  /\ log = <<reportException("Unable to open Google Pay."),
             setMessage("Unable to open Google Pay.", "error", "undefined")>>

\* C9: while the most recently returned initGooglePaymentInstance call is one
\* that failed (no later call has succeeded), every gPay attempt that is
\* started fails at request building, reaching neither the payment sheet nor
\* a backend call.
C9_UnusableAfterFailedInit ==
  [][(lastInit = "failed" /\ attempts' = attempts + 1) => FailedAtBuild']_vars

----------------------------------------------------------------------------
(* C10 *)

\* C10: a settlement call is made only after tokenization resolved with a
\* nonce in the same attempt, at most one settlement call is made in an
\* attempt, it is makePayment exactly when action is 'one-time-payment' and
\* addPaymentMethod otherwise, and it carries the nonce of that attempt.
C10_OneSettlementAfterTokenization ==
  /\ Cardinality(SettlementCalls) <= 1
  /\ \A i \in SettlementCalls :
       /\ \E j \in ResolvedOf("tokenizePaymentDataRequest") :
            /\ j < i
            /\ log[j].variant = log[i].variant
            /\ \E k \in ResolvedOf("parseResponse") :
                 k < j /\ log[j].variant \in {log[k].variant, "fake-android-pay-nonce"}
       /\ log[i].variant = nonce
       /\ log[i].msg = IF action = "one-time-payment" THEN "makePayment"
                                                       ELSE "addPaymentMethod"
  /\ pc \in {"makePayment", "addPaymentMethod"} => Cardinality(SettlementCalls) = 1

C10_Witness ==
  /\ pc = "done"
  /\ action = "add-recurring-payment"
  /\ nonce \in RealNonces
  /\ Has(Call("addPaymentMethod", nonce, "is_default:true"))
  /\ attempts = 2

----------------------------------------------------------------------------
(* C11 *)

ProcessingCalls == {i \in DOMAIN log : log[i].op = "setProcessing"}

\* the attempt was started while the slot held no session
StartedWithoutSession == attempts > 0 /\ sessionUsed = undefined

\* C11: a gPay attempt started while no instrument session exists ends at
\* once: the build failure is reported with reportException, the only
\* setMessage call is ('Unable to open Google Pay.', 'error'), and no
\* readiness check, payment sheet, backend call, cache invalidation or
\* setProcessing call happens.
C11_BuildErrorWithoutSession ==
  StartedWithoutSession =>
    /\ pc = "done"
    /\ Has(reportException("Unable to open Google Pay."))
    /\ Cardinality(Messages) = 1
    /\ log[Len(log)] = setMessage("Unable to open Google Pay.", "error", "undefined")
    /\ CallsOf("isReadyToPay") = {}
    /\ CallsOf("loadPaymentData") = {}
    /\ CallsOf("parseResponse") = {}
    /\ SettlementCalls = {}
    /\ Invalidations = {}
    /\ ProcessingCalls = {}
    /\ processing = FALSE

C11_Witness ==
  /\ StartedWithoutSession
  /\ lastInit = "failed"
  /\ pc = "done"

----------------------------------------------------------------------------
(* C12 *)

\* call i returns {error: false} in this step
ReturnsOk(i) ==
  /\ calls[i].pc = "googlePaymentCreate"
  /\ calls'[i].pc = "returned"
  /\ calls'[i].error = "false"

\* C12: every initGooglePaymentInstance call that succeeds overwrites the
\* one slot with its own session, whatever the slot holds and whatever other
\* call is in flight, so the slot holds the session of the call whose
\* creation resolved last; and a gPay attempt builds its request on whatever
\* session the slot holds when it starts.
C12_SlotHoldsLastResolved ==
  [][/\ \A i \in CallIds : ReturnsOk(i) => googlePaymentInstance' = calls[i].token
     /\ attempts' = attempts + 1 => sessionUsed' = googlePaymentInstance]_vars

\* two overlapping calls, A started before B, both returned {error: false};
\* the slot holds A's session and the attempt made afterwards was built on it
C12_Witness ==
  \E a, b \in CallIds :
    /\ calls[a].pc = "returned" /\ calls[a].error = "false"
    /\ calls[b].pc = "returned" /\ calls[b].error = "false"
    /\ calls[a].token < calls[b].token
    /\ googlePaymentInstance = calls[a].token
    /\ sessionUsed = calls[a].token
    /\ CallsOf("createPaymentDataRequest") # {}

----------------------------------------------------------------------------
(* C13 *)

ProcessingOn == {i \in ProcessingCalls : log[i].msg = "true"}
ProcessingOff == {i \in ProcessingCalls : log[i].msg = "false"}

\* the settlement call has resolved or has been rejected
SettlementOver ==
  ResolvedOf("makePayment") \cup RejectedOf("makePayment")
    \cup ResolvedOf("addPaymentMethod") \cup RejectedOf("addPaymentMethod")

C13_Bracket ==
  /\ Cardinality(ProcessingOn) <= 1
  /\ \A i \in ProcessingOn :
       /\ \E j \in ResolvedOf("tokenizePaymentDataRequest") : j < i
       /\ SettlementCalls # {}
       /\ \A k \in SettlementCalls : i < k
  /\ \A i \in ProcessingOff :
       /\ \E j \in ProcessingOn : j < i
       /\ \E k \in SettlementOver : k < i
  /\ processing <=> pc \in {"makePayment", "addPaymentMethod"}
  /\ processing <=> (ProcessingOn # {} /\ ProcessingOff = {})
  /\ pc = "done" =>
       /\ ~processing
       /\ Cardinality(ProcessingOff) = Cardinality(ProcessingOn)
       /\ ResolvedOf("tokenizePaymentDataRequest") = {} => ProcessingCalls = {}
       /\ SettlementOver # {} => Cardinality(ProcessingOff) = 1

\* The awaited backend call settles: its promise resolves or is rejected.
SettlementSettles ==
  \/ \E w \in Warnings : makePaymentResolved(w)
  \/ makePaymentRejected
  \/ addPaymentMethodResolved
  \/ addPaymentMethodRejected

\* The flow under the assumption that the backend answers.  The merchant id
\* is the configured one; both environments, hence both outcomes of the nonce
\* selection, remain.
FairInit == Init /\ GPAY_MERCHANT_ID = "merchant-id"

FairSpec == FairInit /\ [][Next]_vars /\ WF_vars(SettlementSettles)

\* C13: setProcessing(true) is called only after tokenization produced a
\* nonce and before the settlement call starts; it is followed by exactly one
\* setProcessing(false), after the settlement call succeeded or failed; an
\* attempt that ends by cancellation, readiness, build or tokenization
\* failure never calls setProcessing; so the flag is false when an attempt
\* is over, and once set it is eventually cleared.
C13_ProcessingBracket == []C13_Bracket /\ (processing ~> ~processing)

C13_Witness ==
  /\ pc = "done"
  /\ RejectedOf("makePayment") # {}
  /\ ProcessingOn # {}
  /\ ProcessingOff # {}
  /\ ~processing

----------------------------------------------------------------------------
(* C14 *)

PlanSelected == Defined(dbtypes) /\ Find(values.type) # NoType

FormConsistent ==
  /\ values.failover_count = IF Find(values.type).memory = 1024 THEN 0 ELSE 2
  /\ values.replication_type = "none" <=> values.failover_count = 0

\* C14: once a plan is selected, whenever the plan-selection effect has run
\* for the rendered values (after the selection and after any node-count
\* change), failover_count is 0 if the plan's memory is 1024 and 2
\* otherwise, and replication_type is 'none' exactly when failover_count is
\* 0; and the effect always comes to rest.
C14_NodeCountSettles ==
  /\ [](Quiescent /\ PlanSelected => FormConsistent)
  /\ []<>Quiescent

\* at rest after a node-count change to a count other than the plan's
C14_Witness ==
  /\ Quiescent
  /\ PlanSelected
  /\ lastEvent.kind = "radio"
  /\ lastEvent.count # values.failover_count
  /\ FormConsistent

====
